---- MODULE Spec2Model ----
(***************************************************************************)
(* Model of the fractal -> point extraction -> tour construction -> tour   *)
(* improvement -> coloured path pipeline of mandelbrotTSP1.py, of its main *)
(* function, and of the escape-time loop of julia_set.py.                  *)
(*                                                                         *)
(* Points have integer coordinates, so coordinate differences and squared  *)
(* distances are exact in binary64; square roots and sums of distances are *)
(* binary64 values, kept here as integer multiples of 2^-52 and rounded    *)
(* the way IEEE-754 round-to-nearest-even rounds them.                     *)
(***************************************************************************)
EXTENDS Integers, Sequences, FiniteSets, TLC

\* ------------------------------------------------------------------------
\* Bounds of the model
\* ------------------------------------------------------------------------
MaxCells == 5
MaxN == 4
MaxK == 2
MaxSide == 2
MaxCoord == 2
MaxIter == 3
MaxCols == 2
MaxVal == 1
MaxPts == 2
MaxThr == 1
MaxDraw == 4
MaxLevel == 2
MaxDiag == 3

\* np.gradient needs at least this many samples along each axis
GradMin == 2

\* ------------------------------------------------------------------------
\* binary64 values in [0, 32): <<hi, lo>> stands for (hi * 2^28 + lo) * 2^-52
\* ------------------------------------------------------------------------
Base == 2^28

\* correctly rounded binary64 square roots of 0..200, entry d+1 holds sqrt(d)
SqrtTable ==
  <<<<0, 0>>, <<16777216, 0>>, <<23726566, 109001677>>,
    <<29058990, 140004522>>, <<33554432, 0>>, <<37514995, 120580432>>,
    <<41095618, 135414364>>, <<44388341, 61206996>>, <<47453132, 218003354>>,
    <<50331648, 0>>, <<53054215, 95729318>>, <<55643730, 133881448>>,
    <<58117981, 11573588>>, <<60491112, 146977766>>, <<62774594, 47218322>>,
    <<64977878, 43949492>>, <<67108864, 0>>, <<69174233, 180335644>>,
    <<71179699, 58569572>>, <<73130189, 26294244>>, <<75029990, 241160864>>,
    <<76882862, 72645140>>, <<78692118, 89217692>>, <<80460701, 98308184>>,
    <<82191237, 2393272>>, <<83886080, 0>>, <<85547351, 206094296>>,
    <<87176971, 151578112>>, <<88776682, 122413992>>, <<90348073, 44263372>>,
    <<91892596, 148543036>>, <<93411585, 94570252>>, <<94906265, 167571252>>,
    <<96377768, 93012928>>, <<97827139, 114200200>>, <<99255348, 105842868>>,
    <<100663296, 0>>, <<102051820, 227504356>>, <<103421705, 64756068>>,
    <<104773680, 90918440>>, <<106108430, 191458636>>, <<107426598, 109050880>>,
    <<108728786, 144198032>>, <<110015562, 141985152>>, <<111287460, 267762896>>,
    <<112544986, 93305840>>, <<113788615, 29573260>>, <<115018798, 14045080>>,
    <<116235962, 23147176>>, <<117440512, 0>>, <<118632832, 8137472>>,
    <<119813287, 78974776>>, <<120982225, 25520076>>, <<122139976, 31190948>>,
    <<123286855, 137807640>>, <<124423163, 246122336>>, <<125549188, 94436644>>,
    <<126665203, 22756720>>, <<127771470, 108466624>>, <<128868241, 91126636>>,
    <<129955756, 87898984>>, <<131034245, 221893024>>, <<132103930, 238369864>>,
    <<133165023, 183620988>>, <<134217728, 0>>, <<135262239, 185456256>>,
    <<136298747, 28688480>>, <<137327431, 131507288>>, <<138348467, 92235832>>,
    <<139362022, 209092680>>, <<140368259, 224755416>>, <<141367334, 212850736>>,
    <<142359398, 117139144>>, <<143344596, 91268376>>, <<144323069, 28838512>>,
    <<145294952, 163151704>>, <<146260378, 52588488>>, <<147219472, 246849304>>,
    <<148172359, 191858720>>, <<149119157, 158188416>>, <<150059981, 213886272>>,
    <<150994944, 0>>, <<151924152, 114278688>>, <<152847712, 2941248>>,
    <<153765724, 145290280>>, <<154678288, 209810640>>, <<155585500, 161202592>>,
    <<156487453, 23500592>>, <<157384236, 178435384>>, <<158275939, 51657224>>,
    <<159162646, 18752496>>, <<160044440, 88690008>>, <<160921402, 196616368>>,
    <<161793611, 227027456>>, <<162661144, 35821616>>, <<163524074, 8170760>>,
    <<164382474, 4786544>>, <<165236414, 186299152>>, <<166085964, 226140824>>,
    <<166931191, 133208888>>, <<167772160, 0>>, <<168608934, 18435968>>,
    <<169441575, 226550736>>, <<170270145, 254511768>>, <<171094703, 143753136>>,
    <<171915306, 91769928>>, <<172732010, 196346944>>, <<173544871, 199251008>>,
    <<174353943, 34720768>>, <<175159277, 109038008>>, <<175960925, 237462936>>,
    <<176758938, 191346432>>, <<177553364, 244827984>>, <<178344252, 110526896>>,
    <<179131648, 22342352>>, <<179915597, 207283904>>, <<180696146, 88526744>>,
    <<181473337, 172497848>>, <<182247214, 177557200>>, <<183017819, 115174952>>,
    <<183785193, 28650616>>, <<184549376, 0>>, <<185310407, 156586560>>,
    <<186068326, 140637680>>, <<186823170, 189140504>>, <<187574977, 66031248>>,
    <<188323782, 141654968>>, <<189069622, 56102528>>, <<189812531, 66707048>>,
    <<190552543, 247870016>>, <<191289693, 227579736>>, <<192024013, 265935784>>,
    <<192755536, 186025856>>, <<193484293, 183693712>>, <<194210316, 26543600>>,
    <<194933634, 131848472>>, <<195654278, 228400400>>, <<196372278, 165711616>>,
    <<197087662, 186216984>>, <<197800459, 123612000>>, <<198510696, 211685736>>,
    <<199218402, 13992448>>, <<199923602, 37769032>>, <<200626323, 126522400>>,
    <<201326592, 0>>, <<202024433, 62499120>>, <<202719872, 63599456>>,
    <<203412933, 174725288>>, <<204103641, 186573256>>, <<204792020, 48634416>>,
    <<205478092, 140200912>>, <<206161881, 199118344>>, <<206843410, 129512136>>,
    <<207522701, 4136016>>, <<208199775, 66651488>>, <<208874654, 196969920>>,
    <<209547360, 181836880>>, <<210217913, 253789984>>, <<210886335, 19444328>>,
    <<211552644, 72074792>>, <<212216861, 114481816>>, <<212879006, 34593368>>,
    <<213539097, 175708720>>, <<214197154, 264514704>>, <<214853196, 218101760>>,
    <<215507241, 145626736>>, <<216159307, 81494968>>, <<216809411, 255369488>>,
    <<217457573, 19960608>>, <<218103808, 0>>, <<218748133, 214643336>>,
    <<219390567, 78882728>>, <<220031125, 15534848>>, <<220669823, 114403056>>,
    <<221306678, 133582008>>, <<221941706, 37599520>>, <<222574921, 267090336>>,
    <<223206341, 129390048>>, <<223835979, 215630272>>, <<224463851, 254401328>>,
    <<225089972, 186611680>>, <<225714356, 166577568>>, <<226337018, 26214768>>,
    <<226957971, 81381288>>, <<227577230, 59146520>>, <<228194808, 172519288>>,
    <<228810720, 47668296>>, <<229424978, 67038488>>, <<230037596, 28090160>>,
    <<230648586, 217935424>>, <<231257963, 72034144>>, <<231865738, 54094816>>,
    <<232471924, 46294352>>, <<233076533, 155397576>>, <<233679578, 176680416>>,
    <<234281071, 131576584>>, <<234881024, 0>>, <<235479447, 257956168>>,
    <<236076354, 267653072>>, <<236671756, 157256512>>, <<237265664, 16274944>>>>

Sqrt(d) == SqrtTable[d + 1]

FromInt(k) == <<k * 2^24, 0>>

FLt(a, b) == a[1] < b[1] \/ (a[1] = b[1] /\ a[2] < b[2])

FLe(a, b) == ~FLt(b, a)

\* carry of the low limb into the high limb
Carry(hi, lo) == <<hi + (lo \div Base), lo % Base>>

\* spacing of binary64 values around hi * 2^28 * 2^-52, in units of 2^-52
Ulp(hi) ==
  IF hi < 2^25 THEN 1
  ELSE IF hi < 2^26 THEN 2
  ELSE IF hi < 2^27 THEN 4
  ELSE IF hi < 2^28 THEN 8
  ELSE 16

\* round-to-nearest, ties-to-even, of an exact value to binary64
FRound(v) ==
  LET q == Ulp(v[1])
      r == v[2] % q
      down == v[2] - r
      up == IF 2 * r > q THEN TRUE
            ELSE IF 2 * r < q THEN FALSE
            ELSE (down \div q) % 2 = 1
  IN  IF r = 0 THEN v
      ELSE IF up THEN Carry(v[1], down + q)
      ELSE <<v[1], down>>

FAdd(a, b) == FRound(Carry(a[1] + b[1], a[2] + b[2]))

\* ------------------------------------------------------------------------
\* State
\* ------------------------------------------------------------------------
VARIABLES
  pc,             \* position in the program
  caller,         \* "solve_tsp" when two_opt is called by solve_tsp, "direct" otherwise
  points,         \* the point array: index 0..n-1 -> <<x, y>>
  method,         \* solve_tsp's method argument
  path,           \* the tour being built / improved (Python position k is path[k+1])
  unvisited,      \* nearest_neighbor_tsp: set of unvisited indices
  current,        \* nearest_neighbor_tsp: current point index
  initial_path,   \* two_opt's argument
  iterations,     \* two_opt's sweep budget
  improved,       \* two_opt: flag of the while loop
  iter_count,     \* two_opt: sweeps started
  i, j,           \* two_opt: loop indices
  total_distance, \* solve_tsp: reported path length
  call,           \* number of the two_opt call in progress (1, or 2 for a re-run)
  sweep_rev,      \* reversals applied in the sweep in progress / last finished
  call_rev,       \* reversals applied since two_opt was entered
  prev_zero,      \* the previous two_opt call returned after a sweep without reversal
  \* escape-time loop (calculate_mandelbrot, calculate_julia_set)
  kind,           \* "mandelbrot" or "julia"
  X, Y,           \* coordinate arrays: cell <<row, col>> -> coordinate
  C,              \* added constant per cell (julia: the scalar, broadcast)
  Z,              \* orbit value per cell, <<re, im>>
  M,              \* recorded iteration count per cell
  max_iter,       \* iteration cap
  it,             \* loop variable i of the escape-time loop
  \* extract_points
  num_points,     \* requested number of points
  sample_method,  \* 'boundary', 'gradient' or 'random'
  threshold,      \* boundary threshold
  used_method,    \* the local variable method after line 101
  picked,         \* sampled cells <<points_y[k], points_x[k]>>, in order
  point_iterations, \* returned iterations array
  \* create_gradient_line_plot
  color_by,       \* 'position' or 'iteration'
  ordered_points, \* points[path]
  segments,       \* the line segments <<start, end>>, in order
  colors,         \* one value <<numerator, denominator>> per segment
  \* main: the arguments of calculate_mandelbrot
  width, height,  \* number of columns and rows of the grid
  x_min, x_max,   \* real-axis window
  y_min, y_max    \* imaginary-axis window

tspVars == <<pc, caller, points, method, path, unvisited, current, initial_path,
             iterations, improved, iter_count, i, j, total_distance, call,
             sweep_rev, call_rev, prev_zero>>

fieldVars == <<kind, X, Y, C, Z, M, max_iter, it>>

extVars == <<num_points, sample_method, threshold, used_method, picked,
             point_iterations>>

plotVars == <<color_by, ordered_points, segments, colors>>

mainVars == <<width, height, x_min, x_max, y_min, y_max>>

vars == <<tspVars, fieldVars, extVars, plotVars, mainVars>>

\* ------------------------------------------------------------------------
\* Helpers of the tour code
\* ------------------------------------------------------------------------
\* integer sample coordinates <<x, y>>; a point array takes its points among the
\* first MaxCells of them
Lattice ==
  <<<<0, 0>>, <<1, 0>>, <<1, 1>>, <<0, 1>>, <<2, 0>>, <<2, 2>>, <<3, 3>>, <<0, 2>>,
    <<3, 0>>, <<2, 1>>>>

Cells == {Lattice[k] : k \in 1..MaxCells}

PointSets(n) == [0..(n - 1) -> Cells]

NumPoints == Cardinality(DOMAIN points)

\* Python position k of a list
At(s, k) == s[k + 1]

\* np.linalg.norm(p - q) and cdist([p], [q]): sqrt of the sum of squared differences
Norm(p, q) == Sqrt((p[1] - q[1]) * (p[1] - q[1]) + (p[2] - q[2]) * (p[2] - q[2]))

Dist(a, b) == Norm(points[a], points[b])

RECURSIVE SetToList(_)
\* list(unvisited): a set of small non-negative ints iterates in ascending order
SetToList(S) ==
  IF S = {} THEN <<>>
  ELSE LET m == CHOOSE x \in S : \A y \in S : x <= y
       IN  <<m>> \o SetToList(S \ {m})

\* the position of the last minimal entry
ArgminLast(ds) ==
  (CHOOSE k \in 1..Len(ds) :
     /\ \A m \in 1..Len(ds) : FLe(ds[k], ds[m])
     /\ \A m \in (k + 1)..Len(ds) : FLt(ds[k], ds[m])) - 1

\* np.argmin: Python position of the first minimal entry
Argmin(ds) ==
  (CHOOSE k \in 1..Len(ds) :
     /\ \A m \in 1..Len(ds) : FLe(ds[k], ds[m])
     /\ \A m \in 1..(k - 1) : FLt(ds[k], ds[m])) - 1

\* a copy that also reverses the list
CopyReversed(s) == [k \in 1..Len(s) |-> s[Len(s) + 1 - k]]

\* initial_path.copy()
Copy(s) == s

\* a reversal that starts one position early
ReverseFromStart(s, a, b) ==
  [k \in 1..Len(s) |-> IF a <= k /\ k <= b + 1 THEN s[a + b + 1 - k] ELSE s[k]]

\* a reversal whose source slice is shifted by one position
ReverseOffByOne(s, a, b) ==
  [k \in 1..Len(s) |-> IF a + 1 <= k /\ k <= b + 1 THEN s[a + b + 1 - k] ELSE s[k]]

\* path[i:j+1] = path[i:j+1][::-1]
Reverse(s, a, b) ==
  [k \in 1..Len(s) |-> IF a + 1 <= k /\ k <= b + 1 THEN s[a + b + 2 - k] ELSE s[k]]

\* the two edge sums compared by two_opt for the pair (a, b)
CurrentDist(p, a, b) ==
  FAdd(Dist(At(p, a - 1), At(p, a)), Dist(At(p, b), At(p, (b + 1) % Len(p))))

NewDist(p, a, b) ==
  FAdd(Dist(At(p, a - 1), At(p, b)), Dist(At(p, a), At(p, (b + 1) % Len(p))))

\* the comparison with its operands exchanged
ImprovesFlipped(p, a, b) == FLt(CurrentDist(p, a, b), NewDist(p, a, b))

\* line 196: new_dist < current_dist
Improves(p, a, b) == FLt(NewDist(p, a, b), CurrentDist(p, a, b))

RECURSIVE SumDist(_, _)
\* np.sum of the first k consecutive distances of p, added left to right
SumDist(p, k) ==
  IF k = 0 THEN FromInt(0)
  ELSE FAdd(SumDist(p, k - 1), Dist(p[k], p[k + 1]))

\* the length of the closed tour: the consecutive distances and the distance
\* from the last point back to the first
PathLengthClosed(p) ==
  IF Len(p) <= 1 THEN FromInt(0)
  ELSE FAdd(SumDist(p, Len(p) - 1), Dist(p[Len(p)], p[1]))

\* np.sum(np.linalg.norm(np.diff(points[path], axis=0), axis=1))
PathLength(p) == IF Len(p) <= 1 THEN FromInt(0) ELSE SumDist(p, Len(p) - 1)

\* the tour 0, 1, ..., n-1
IdentityTour(n) == [k \in 1..n |-> k - 1]

IsPermutationOf(s, t) ==
  /\ Len(s) = Len(t)
  /\ \A x \in {t[k] : k \in DOMAIN t} : Cardinality({k \in DOMAIN s : s[k] = x}) = 1
  /\ \A k \in DOMAIN s : \E m \in DOMAIN t : t[m] = s[k]

\* ------------------------------------------------------------------------
\* nearest_neighbor_tsp, two_opt, solve_tsp
\* ------------------------------------------------------------------------
\* values of the variables a specification does not use
IdleTsp ==
  /\ caller = "none" /\ method = "none" /\ path = <<>> /\ unvisited = {}
  /\ current = 0 /\ initial_path = <<>> /\ iterations = 0 /\ improved = FALSE
  /\ iter_count = 0 /\ i = 0 /\ j = 0 /\ total_distance = FromInt(0)
  /\ call = 0 /\ sweep_rev = 0 /\ call_rev = 0 /\ prev_zero = FALSE

IdleField ==
  /\ kind = "none" /\ X = <<>> /\ Y = <<>> /\ C = <<>> /\ Z = <<>> /\ M = <<>>
  /\ max_iter = 0 /\ it = 0

IdleExt ==
  /\ num_points = 0 /\ sample_method = "none" /\ threshold = 0
  /\ used_method = "none" /\ picked = <<>> /\ point_iterations = <<>>

IdlePlot ==
  /\ color_by = "none" /\ ordered_points = <<>> /\ segments = <<>>
  /\ colors = <<>>

IdleMain ==
  /\ width = 0 /\ height = 0 /\ x_min = 0 /\ x_max = 0 /\ y_min = 0 /\ y_max = 0

\* solve_tsp(points, method, two_opt_iter) is called
InitTSP ==
  /\ pc = "solve_tsp"
  /\ \E n \in 0..MaxN : points \in PointSets(n)
  /\ method \in {"nearest_neighbor", "2opt"}
  /\ iterations \in 0..MaxK
  /\ caller = "solve_tsp"
  /\ path = <<>> /\ unvisited = {} /\ current = 0 /\ initial_path = <<>>
  /\ improved = FALSE /\ iter_count = 0 /\ i = 0 /\ j = 0
  /\ total_distance = FromInt(0)
  /\ call = 0 /\ sweep_rev = 0 /\ call_rev = 0 /\ prev_zero = FALSE
  /\ IdleField /\ IdleExt
  /\ IdlePlot /\ IdleMain

\* two_opt(points, initial_path, iterations) is called directly.  The tour is
\* 0, 1, ..., n-1 over an arbitrary point array: a call on any other tour t is
\* this call on the array k |-> points[t[k]], with the indices renamed by t.
InitTwoOpt ==
  /\ pc = "two_opt"
  /\ \E n \in 0..MaxN : points \in PointSets(n) /\ initial_path = IdentityTour(n)
  /\ iterations \in 0..MaxK
  /\ caller = "direct" /\ method = "none"
  /\ path = <<>> /\ unvisited = {} /\ current = 0
  /\ improved = FALSE /\ iter_count = 0 /\ i = 0 /\ j = 0
  /\ total_distance = FromInt(0)
  /\ call = 1 /\ sweep_rev = 0 /\ call_rev = 0 /\ prev_zero = FALSE
  /\ IdleField /\ IdleExt
  /\ IdlePlot /\ IdleMain

\* the start index is left in the unvisited set
UnvisitedKeepsStart(n) == 0..(n - 1)

\* lines 150 and 152: set(range(n)) with 0 removed
InitialUnvisited(n) == (0..(n - 1)) \ {0}

\* a start that does not fail on an empty point set
NNInitNeverFails ==
  /\ pc = "solve_tsp"
  /\ path' = <<0>>
  /\ unvisited' = InitialUnvisited(NumPoints)
  /\ current' = 0
  /\ pc' = "nn_loop"
  /\ UNCHANGED <<caller, points, method, initial_path, iterations, improved,
                 iter_count, i, j, total_distance, call, sweep_rev, call_rev,
                 prev_zero, fieldVars, extVars>>
  /\ UNCHANGED <<plotVars, mainVars>>

\* lines 149-154: n, unvisited, path = [0], unvisited.remove(0) (KeyError when n = 0)
NNInit ==
  /\ pc = "solve_tsp"
  /\ IF NumPoints = 0
       THEN /\ pc' = "error"
            /\ UNCHANGED <<path, unvisited, current>>
       ELSE /\ path' = <<0>>
            /\ unvisited' = InitialUnvisited(NumPoints)
            /\ current' = 0
            /\ pc' = "nn_loop"
  /\ UNCHANGED <<caller, points, method, initial_path, iterations, improved,
                 iter_count, i, j, total_distance, call, sweep_rev, call_rev,
                 prev_zero, fieldVars, extVars>>
  /\ UNCHANGED <<plotVars, mainVars>>

\* lines 157-159: the unvisited point appended next
Nearest(cur, unv) ==
  LET lst == SetToList(unv)
      distances == [k \in 1..Len(lst) |-> Dist(cur, lst[k])]
      nearest_idx == Argmin(distances)
  IN  At(lst, nearest_idx)

\* an iteration that appends any unvisited point
NNStepAnyUnvisited ==
  /\ pc = "nn_loop"
  /\ unvisited # {}
  /\ \E nearest \in unvisited :
         /\ path' = Append(path, nearest)
         /\ unvisited' = unvisited \ {nearest}
         /\ current' = nearest
  /\ UNCHANGED <<pc, caller, points, method, initial_path, iterations, improved,
                 iter_count, i, j, total_distance, call, sweep_rev, call_rev,
                 prev_zero, fieldVars, extVars>>
  /\ UNCHANGED <<plotVars, mainVars>>

\* lines 155-163: one iteration of the while loop
NNStep ==
  /\ pc = "nn_loop"
  /\ unvisited # {}
  /\ LET nearest == Nearest(current, unvisited)
     IN  /\ path' = Append(path, nearest)
         /\ unvisited' = unvisited \ {nearest}
         /\ current' = nearest
  /\ UNCHANGED <<pc, caller, points, method, initial_path, iterations, improved,
                 iter_count, i, j, total_distance, call, sweep_rev, call_rev,
                 prev_zero, fieldVars, extVars>>
  /\ UNCHANGED <<plotVars, mainVars>>

\* line 165 and lines 214-218: the tour is returned to solve_tsp, which calls
\* two_opt when method is '2opt'
NNReturn ==
  /\ pc = "nn_loop"
  /\ unvisited = {}
  /\ IF method = "2opt"
       THEN /\ pc' = "two_opt"
            /\ initial_path' = path
            /\ call' = 1
       ELSE /\ pc' = "total"
            /\ UNCHANGED <<initial_path, call>>
  /\ UNCHANGED <<caller, points, method, path, unvisited, current, iterations,
                 improved, iter_count, i, j, total_distance, sweep_rev, call_rev,
                 prev_zero, fieldVars, extVars>>
  /\ UNCHANGED <<plotVars, mainVars>>

\* lines 172-176: private copy and loop state
TwoOptInit ==
  /\ pc = "two_opt"
  /\ path' = Copy(initial_path)
  /\ improved' = TRUE
  /\ iter_count' = 0
  /\ sweep_rev' = 0
  /\ call_rev' = 0
  /\ pc' = "while"
  /\ UNCHANGED <<caller, points, method, unvisited, current, initial_path,
                 iterations, i, j, total_distance, call, prev_zero,
                 fieldVars, extVars>>
  /\ UNCHANGED <<plotVars, mainVars>>

\* a loop condition that forgets whether the last sweep improved the tour
ContinueWhileBudget(imp, cnt, budget) == cnt < budget

\* a loop condition that allows one sweep more than the budget
ContinueOneMore(imp, cnt, budget) == imp /\ cnt <= budget

\* a loop condition that forgets the budget
ContinueIgnoresBudget(imp, cnt, budget) == imp

\* line 178: the loop condition
Continue(imp, cnt, budget) == imp /\ cnt < budget

\* lines 178-183: a sweep starts; the pair loops are empty when n < 3
SweepStart ==
  /\ pc = "while"
  /\ Continue(improved, iter_count, iterations)
  /\ improved' = FALSE
  /\ iter_count' = iter_count + 1
  /\ sweep_rev' = 0
  /\ IF Len(path) >= 3
       THEN /\ i' = 1 /\ j' = 2 /\ pc' = "pair"
       ELSE /\ UNCHANGED <<i, j, pc>>
  /\ UNCHANGED <<caller, points, method, path, unvisited, current, initial_path,
                 iterations, total_distance, call, call_rev, prev_zero,
                 fieldVars, extVars>>
  /\ UNCHANGED <<plotVars, mainVars>>

\* the pair step of a two_opt without the private copy: path and initial_path
\* are one list, so a reversal shows in both
PairStepAliased ==
  /\ pc = "pair"
  /\ IF Improves(path, i, j)
       THEN /\ path' = Reverse(path, i, j)
            /\ initial_path' = Reverse(path, i, j)
            /\ improved' = TRUE
            /\ sweep_rev' = sweep_rev + 1
            /\ call_rev' = call_rev + 1
       ELSE UNCHANGED <<path, initial_path, improved, sweep_rev, call_rev>>
  /\ IF j + 1 <= Len(path) - 1
       THEN /\ j' = j + 1 /\ UNCHANGED <<i, pc>>
       ELSE IF i + 1 <= Len(path) - 2
              THEN /\ i' = i + 1 /\ j' = i + 2 /\ UNCHANGED pc
              ELSE /\ pc' = "while" /\ UNCHANGED <<i, j>>
  /\ UNCHANGED <<caller, points, method, unvisited, current,
                 iterations, iter_count, total_distance, call, prev_zero,
                 fieldVars, extVars>>
  /\ UNCHANGED <<plotVars, mainVars>>

\* lines 184-199: the pair (i, j) is examined, then the loops advance
PairStep ==
  /\ pc = "pair"
  /\ IF Improves(path, i, j)
       THEN /\ path' = Reverse(path, i, j)
            /\ improved' = TRUE
            /\ sweep_rev' = sweep_rev + 1
            /\ call_rev' = call_rev + 1
       ELSE UNCHANGED <<path, improved, sweep_rev, call_rev>>
  /\ IF j + 1 <= Len(path) - 1
       THEN /\ j' = j + 1 /\ UNCHANGED <<i, pc>>
       ELSE IF i + 1 <= Len(path) - 2
              THEN /\ i' = i + 1 /\ j' = i + 2 /\ UNCHANGED pc
              ELSE /\ pc' = "while" /\ UNCHANGED <<i, j>>
  /\ UNCHANGED <<caller, points, method, unvisited, current, initial_path,
                 iterations, iter_count, total_distance, call, prev_zero,
                 fieldVars, extVars>>
  /\ UNCHANGED <<plotVars, mainVars>>

\* lines 178 and 205: the loop ends and path is returned
TwoOptReturn ==
  /\ pc = "while"
  /\ ~Continue(improved, iter_count, iterations)
  /\ pc' = IF caller = "solve_tsp" THEN "total" ELSE "returned"
  /\ UNCHANGED <<caller, points, method, path, unvisited, current, initial_path,
                 iterations, improved, iter_count, i, j, total_distance, call,
                 sweep_rev, call_rev, prev_zero, fieldVars, extVars>>
  /\ UNCHANGED <<plotVars, mainVars>>

\* lines 224-229: the reported total path length
SolveTotal ==
  /\ pc = "total"
  /\ total_distance' = PathLength(path)
  /\ pc' = "done"
  /\ UNCHANGED <<caller, points, method, path, unvisited, current, initial_path,
                 iterations, improved, iter_count, i, j, call, sweep_rev,
                 call_rev, prev_zero, fieldVars, extVars>>
  /\ UNCHANGED <<plotVars, mainVars>>

\* two_opt is called again on the tour it returned, with a budget of one sweep or more
Rerun ==
  /\ pc = "returned"
  /\ call = 1
  /\ initial_path' = path
  /\ \E k \in 1..MaxK : iterations' = k
  /\ prev_zero' = (iter_count >= 1 /\ sweep_rev = 0)
  /\ call' = 2
  /\ pc' = "two_opt"
  /\ UNCHANGED <<caller, points, method, path, unvisited, current, improved,
                 iter_count, i, j, total_distance, sweep_rev, call_rev,
                 fieldVars, extVars>>
  /\ UNCHANGED <<plotVars, mainVars>>

NextTSP ==
  \/ NNInit \/ NNStep \/ NNReturn
  \/ TwoOptInit \/ SweepStart \/ PairStep \/ TwoOptReturn
  \/ SolveTotal

NextTwoOpt ==
  \/ TwoOptInit \/ SweepStart \/ PairStep \/ TwoOptReturn \/ Rerun

NextOneCall ==
  \/ TwoOptInit \/ SweepStart \/ PairStep \/ TwoOptReturn

SpecTSP == InitTSP /\ [][NextTSP]_vars

SpecTwoOpt == InitTwoOpt /\ [][NextTwoOpt]_vars

\* the direct calls whose first point lies on the first lattice cell
InitOneCall == InitTwoOpt /\ (NumPoints > 0 => points[0] = Lattice[1])

\* one call of two_opt; every step of the sequential code is eventually taken
FairTwoOpt == InitOneCall /\ [][NextOneCall]_vars /\ WF_vars(NextOneCall)

\* the lattice points (k, k): their distances are the multiples of sqrt(2), so
\* sums of distances that are equal as real numbers occur among them
DiagCells == {<<k, k>> : k \in 0..MaxDiag}

\* two_opt(points, initial_path, iterations) is called directly on points of
\* the diagonal
InitDiagonal ==
  /\ pc = "two_opt"
  /\ \E n \in 0..MaxN :
       points \in [0..(n - 1) -> DiagCells] /\ initial_path = IdentityTour(n)
  /\ iterations \in 0..MaxK
  /\ caller = "direct" /\ method = "none"
  /\ path = <<>> /\ unvisited = {} /\ current = 0
  /\ improved = FALSE /\ iter_count = 0 /\ i = 0 /\ j = 0
  /\ total_distance = FromInt(0)
  /\ call = 1 /\ sweep_rev = 0 /\ call_rev = 0 /\ prev_zero = FALSE
  /\ IdleField /\ IdleExt
  /\ IdlePlot /\ IdleMain

SpecDiagonal == InitDiagonal /\ [][NextOneCall]_vars

\* ------------------------------------------------------------------------
\* Escape-time loop: calculate_mandelbrot (lines 53-77), calculate_julia_set
\* (julia_set.py lines 32-53).  Sample coordinates and the Julia constant are
\* integers, so every orbit value is a Gaussian integer, exact in binary64.
\* ------------------------------------------------------------------------
GridCells(h, w) == (0..(h - 1)) \X (0..(w - 1))

\* np.linspace(lo, lo + n - 1, n)[k]
Linspace(lo, k) == lo + k

Coords == (-MaxCoord)..MaxCoord

CAdd(a, b) == <<a[1] + b[1], a[2] + b[2]>>

\* Z ** 2
CSquare(z) == <<z[1] * z[1] - z[2] * z[2], 2 * z[1] * z[2]>>

\* np.abs of a complex value
Abs(z) == Sqrt(z[1] * z[1] + z[2] * z[2])

\* a mask with the wrong radius
MaskRadiusThree(z) == FLe(Abs(z), FromInt(3))

\* mask = np.abs(Z) <= 2
Mask(z) == FLe(Abs(z), FromInt(2))

\* the number of iterations performed instead of the loop index
RecordCount(old, k) == k + 1

\* the count accumulates instead of being assigned
RecordAccumulates(old, k) == old + k + 1

\* M[mask] = i
Record(old, k) == k

\* the starting orbit value of a Julia cell
Z0(cell) == <<X[cell], Y[cell]>>

\* the arrays at loop entry: X, Y = meshgrid(linspace, linspace); Mandelbrot has
\* C = X + iY, Z = 0; Julia has Z = X + iY and a scalar C; M = 0
InitField ==
  /\ pc = "escape_loop"
  /\ kind \in {"mandelbrot", "julia"}
  /\ max_iter \in 1..MaxIter
  /\ \E h \in 1..MaxSide, w \in 1..MaxSide :
       \E x0 \in (-MaxCoord)..(MaxCoord - w + 1), y0 \in (-MaxCoord)..(MaxCoord - h + 1) :
         /\ X = [cell \in GridCells(h, w) |-> Linspace(x0, cell[2])]
         /\ Y = [cell \in GridCells(h, w) |-> Linspace(y0, cell[1])]
  /\ IF kind = "mandelbrot"
       THEN /\ C = [cell \in DOMAIN X |-> <<X[cell], Y[cell]>>]
            /\ Z = [cell \in DOMAIN X |-> <<0, 0>>]
       ELSE /\ \E c \in Coords \X Coords : C = [cell \in DOMAIN X |-> c]
            /\ Z = [cell \in DOMAIN X |-> <<X[cell], Y[cell]>>]
  /\ M = [cell \in DOMAIN X |-> 0]
  /\ it = 0
  /\ points = <<>>
  /\ IdleTsp /\ IdleExt
  /\ IdlePlot /\ IdleMain

\* an iteration whose mask is shared by all cells: every cell is updated while
\* any cell is inside
EscapeStepSharedMask ==
  /\ pc = "escape_loop"
  /\ it < max_iter
  /\ Z' = [cell \in DOMAIN Z |->
             IF \E other \in DOMAIN Z : Mask(Z[other])
               THEN CAdd(CSquare(Z[cell]), C[cell]) ELSE Z[cell]]
  /\ M' = [cell \in DOMAIN M |->
             IF \E other \in DOMAIN Z : Mask(Z[other])
               THEN Record(M[cell], it) ELSE M[cell]]
  /\ it' = it + 1
  /\ UNCHANGED <<pc, kind, X, Y, C, max_iter, tspVars, extVars>>
  /\ UNCHANGED <<plotVars, mainVars>>

\* one iteration of "for i in range(max_iter)": mask, masked update, masked record
EscapeStep ==
  /\ pc = "escape_loop"
  /\ it < max_iter
  /\ Z' = [cell \in DOMAIN Z |->
             IF Mask(Z[cell]) THEN CAdd(CSquare(Z[cell]), C[cell]) ELSE Z[cell]]
  /\ M' = [cell \in DOMAIN M |->
             IF Mask(Z[cell]) THEN Record(M[cell], it) ELSE M[cell]]
  /\ it' = it + 1
  /\ UNCHANGED <<pc, kind, X, Y, C, max_iter, tspVars, extVars>>
  /\ UNCHANGED <<plotVars, mainVars>>

\* range(max_iter) is exhausted
EscapeDone ==
  /\ pc = "escape_loop"
  /\ it = max_iter
  /\ pc' = "field_done"
  /\ UNCHANGED <<caller, points, method, path, unvisited, current, initial_path,
                 iterations, improved, iter_count, i, j, total_distance, call,
                 sweep_rev, call_rev, prev_zero, fieldVars, extVars>>
  /\ UNCHANGED <<plotVars, mainVars>>

\* lines 55-57 of julia_set.py.  The float values of this step are written
\* <<"num", m, q>> for the finite number m + 1 - log(log(sqrt(q) + 1)) / log(2)
\* with q > 0, <<"inf">> for +infinity, <<"max">> for the largest finite
\* binary64 number, and <<"int", m>> for the integer m.
\* M + 1 - np.log(np.log(np.abs(Z) + 1)) / np.log(2) at one cell: with |z| = 0
\* the inner logarithm is 0, the outer one -infinity, and the value +infinity
Smooth(m, z) ==
  IF z = <<0, 0>> THEN <<"inf">>
  ELSE <<"num", m, z[1] * z[1] + z[2] * z[2]>>

\* np.nan_to_num at one cell: NaN becomes 0.0, +infinity the largest finite number
NanToNum(v) ==
  IF v = <<"nan">> THEN <<"int", 0>>
  ELSE IF v = <<"inf">> THEN <<"max">>
  ELSE v

\* lines 55-59: the smoothed field replaces M and is returned
JuliaSmooth ==
  /\ pc = "field_done"
  /\ kind = "julia"
  /\ M' = [cell \in DOMAIN M |-> NanToNum(Smooth(M[cell], Z[cell]))]
  /\ pc' = "smoothed"
  /\ UNCHANGED <<caller, points, method, path, unvisited, current, initial_path,
                 iterations, improved, iter_count, i, j, total_distance, call,
                 sweep_rev, call_rev, prev_zero, kind, X, Y, C, Z, max_iter, it,
                 extVars, plotVars, mainVars>>

NextField == EscapeStep \/ EscapeDone \/ JuliaSmooth

SpecField == InitField /\ [][NextField]_vars

\* ------------------------------------------------------------------------
\* extract_points (lines 83-137).  The field M is an arbitrary array of iteration
\* counts with GradMin rows and GradMin..MaxCols columns; X and Y are the sample
\* coordinates linspace(0, w-1, w) and linspace(0, h-1, h).
\* ------------------------------------------------------------------------
Rows(F) == Cardinality({cell[1] : cell \in DOMAIN F})

Cols(F) == Cardinality({cell[2] : cell \in DOMAIN F})

\* np.gradient along one axis, times 2: central differences inside, one-sided
\* differences at both ends; v[k] is the k-th sample, n the number of samples
Gradient2(v, k, n) ==
  IF k = 0 THEN 2 * (v[1] - v[0])
  ELSE IF k = n - 1 THEN 2 * (v[n - 1] - v[n - 2])
  ELSE v[k + 1] - v[k - 1]

\* 2 * grad_x and 2 * grad_y at a cell
GradX2(F, cell) ==
  Gradient2([k \in 0..(Cols(F) - 1) |-> F[<<cell[1], k>>]], cell[2], Cols(F))

GradY2(F, cell) ==
  Gradient2([k \in 0..(Rows(F) - 1) |-> F[<<k, cell[2]>>]], cell[1], Rows(F))

\* 2 * gradient_magnitude at a cell: np.sqrt(grad_x**2 + grad_y**2), doubled
GradientMagnitude2(F, cell) ==
  Sqrt(GradX2(F, cell) * GradX2(F, cell) + GradY2(F, cell) * GradY2(F, cell))

\* boundary_mask = gradient_magnitude > threshold
BoundaryMask(F, cell, t) == FLt(FromInt(2 * t), GradientMagnitude2(F, cell))

\* the cells of an h x w array in flattened (row-major) order
RowMajor(h, w) == [k \in 1..(h * w) |-> <<(k - 1) \div w, (k - 1) % w>>]

\* np.where(boundary_mask): the cells of the mask in row-major order
BoundaryIndices(F, t) ==
  LET Keep(cell) == BoundaryMask(F, cell, t)
  IN  SelectSeq(RowMajor(Rows(F), Cols(F)), Keep)

\* sampling that may draw an index twice
ChoiceWithReplacement(total, size) == [1..size -> 0..(total - 1)]

\* np.random.choice(total, size, replace=False): the possible results
Choice(total, size) ==
  {s \in [1..size -> 0..(total - 1)] : \A a, b \in 1..size : s[a] = s[b] => a = b}

\* every boundary cell, whatever the requested size
SampleAll(total, size) == {[k \in 1..total |-> k - 1]}

\* lines 104-109: sample_indices
SampleIndices(total, size) ==
  IF total > size THEN Choice(total, size)
  ELSE {[k \in 1..total |-> k - 1]}

\* np.random.choice(len(prob), size, replace=False, p=prob) raises ValueError:
\* prob is NaN when the magnitudes sum to 0; the sample may not exceed the
\* population nor the number of non-zero entries of prob
WeightedChoiceFails(F, size) ==
  LET nonzero == {cell \in DOMAIN F : GradientMagnitude2(F, cell) # FromInt(0)}
  IN  nonzero = {} \/ size > Cardinality(DOMAIN F) \/ size > Cardinality(nonzero)

\* np.random.choice(len(prob), size, replace=False, p=prob) followed by
\* np.unravel_index: the possible results, as cells
WeightedChoice(F, size) ==
  LET flat == RowMajor(Rows(F), Cols(F))
  IN  {[k \in 1..size |-> flat[s[k] + 1]] :
         s \in {c \in Choice(Len(flat), size) :
                  \A k \in 1..size :
                    GradientMagnitude2(F, flat[c[k] + 1]) # FromInt(0)}}

\* np.random.randint(0, M.shape[0], n) and np.random.randint(0, M.shape[1], n);
\* with n > 0 and an empty axis randint raises ValueError
RandomCells(F, size) == [1..size -> DOMAIN F]

\* extract_points is called
InitExtract ==
  /\ pc = "extract"
  /\ \E w \in GradMin..MaxCols :
       /\ M \in [GridCells(GradMin, w) -> 0..MaxVal]
       /\ X = [cell \in GridCells(GradMin, w) |-> Linspace(0, cell[2])]
       /\ Y = [cell \in GridCells(GradMin, w) |-> Linspace(0, cell[1])]
  /\ num_points \in 1..MaxPts
  /\ sample_method \in {"boundary", "gradient", "random"}
  /\ threshold \in 0..MaxThr
  /\ used_method = sample_method
  /\ picked = <<>> /\ point_iterations = <<>>
  /\ points = <<>>
  /\ kind = "none" /\ C = <<>> /\ Z = <<>> /\ max_iter = 0 /\ it = 0
  /\ IdleTsp
  /\ IdlePlot /\ IdleMain

\* lines 132-137: coordinates and iteration counts of the sampled cells
Return(cells) ==
  /\ picked' = cells
  /\ points' = [k \in 0..(Len(cells) - 1) |-> <<X[cells[k + 1]], Y[cells[k + 1]]>>]
  /\ point_iterations' = [k \in 1..Len(cells) |-> M[cells[k]]]
  /\ pc' = "extracted"

\* an empty result in place of the ValueError
ReturnNothing ==
  /\ pc' = "extracted"
  /\ picked' = <<>> /\ points' = <<>> /\ point_iterations' = <<>>

\* np.gradient, np.random.choice or np.random.randint raised ValueError: nothing
\* is returned
Raise ==
  /\ pc' = "error"
  /\ UNCHANGED <<picked, points, point_iterations>>

\* np.gradient raises ValueError when an axis has fewer than GradMin samples
GradientFails(F) == Rows(F) < GradMin \/ Cols(F) < GradMin

\* lines 89-137: the whole call
ExtractPoints ==
  /\ pc = "extract"
  /\ IF sample_method \in {"boundary", "gradient"} /\ GradientFails(M)
       THEN /\ used_method' = sample_method
            /\ Raise
       ELSE LET boundary_indices ==
                  IF sample_method = "boundary" THEN BoundaryIndices(M, threshold) ELSE <<>>
                total_boundary == Len(boundary_indices)
                fallback == sample_method = "boundary" /\ total_boundary = 0
                local_method == IF fallback THEN "gradient" ELSE sample_method
            IN  /\ used_method' = local_method
                /\ \/ /\ local_method = "boundary"
                      /\ \E sample_indices \in SampleIndices(total_boundary, num_points) :
                           Return([k \in 1..Len(sample_indices) |->
                                     boundary_indices[sample_indices[k] + 1]])
                   \/ /\ local_method = "gradient"
                      /\ IF WeightedChoiceFails(M, num_points)
                           THEN Raise
                           ELSE \E cells \in WeightedChoice(M, num_points) : Return(cells)
                   \/ /\ local_method = "random"
                      /\ IF num_points > 0 /\ DOMAIN M = {}
                           THEN Raise
                           ELSE \E cells \in RandomCells(M, num_points) : Return(cells)
  /\ UNCHANGED <<caller, method, path, unvisited, current, initial_path,
                 iterations, improved, iter_count, i, j, total_distance, call,
                 sweep_rev, call_rev, prev_zero, fieldVars, num_points,
                 sample_method, threshold>>
  /\ UNCHANGED <<plotVars, mainVars>>

NextExtract == ExtractPoints

SpecExtract == InitExtract /\ [][NextExtract]_vars

\* extract_points is called on a GradMin x GradMin field with up to MaxDraw
\* requested points and thresholds up to MaxLevel
InitSquare ==
  /\ pc = "extract"
  /\ M \in [GridCells(GradMin, GradMin) -> 0..MaxVal]
  /\ X = [cell \in GridCells(GradMin, GradMin) |-> Linspace(0, cell[2])]
  /\ Y = [cell \in GridCells(GradMin, GradMin) |-> Linspace(0, cell[1])]
  /\ num_points \in 1..MaxDraw
  /\ sample_method \in {"boundary", "gradient", "random"}
  /\ threshold \in 0..MaxLevel
  /\ used_method = sample_method
  /\ picked = <<>> /\ point_iterations = <<>>
  /\ points = <<>>
  /\ kind = "none" /\ C = <<>> /\ Z = <<>> /\ max_iter = 0 /\ it = 0
  /\ IdleTsp
  /\ IdlePlot /\ IdleMain

SpecSquare == InitSquare /\ [][NextExtract]_vars

\* ------------------------------------------------------------------------
\* create_gradient_line_plot (lines 235-288), up to the colours handed to
\* LineCollection.  A colour value is the fraction <<numerator, denominator>>;
\* denominator 0 stands for the NaN that the float division 0/0 gives.
\* ------------------------------------------------------------------------
\* the segments of the closed tour: one more, from the last point to the first
SegmentsClosed(op) ==
  [k \in 1..Len(op) |-> <<op[k], op[(k % Len(op)) + 1]>>]

\* lines 247-250: one segment per pair of consecutive ordered points
Segments(op) == [k \in 1..(Len(op) - 1) |-> <<op[k], op[k + 1]>>]

\* np.linspace(0, 1, n)
UnitLinspace(n) == [k \in 1..n |-> IF n = 1 THEN <<0, 1>> ELSE <<k - 1, n - 1>>]

\* s[:-1]
AllButLast(s) == SubSeq(s, 1, Len(s) - 1)

\* s.max() of a non-empty array
Max(s) == CHOOSE m \in {s[k] : k \in 1..Len(s)} : \A k \in 1..Len(s) : s[k] <= m

\* colors / colors.max(), elementwise
Normalize(s) == [k \in 1..Len(s) |-> <<s[k], Max(s)>>]

\* the tours over n points
Tours(n) ==
  {s \in [1..n -> 0..(n - 1)] : \A a, b \in 1..n : s[a] = s[b] => a = b}

\* create_gradient_line_plot(points, path, iterations, color_by) is called on n
\* distinct points, any tour over them and any iteration values
InitPlot ==
  /\ pc = "plot"
  /\ \E n \in 1..MaxN :
       /\ points = [k \in 0..(n - 1) |-> Lattice[k + 1]]
       /\ path \in Tours(n)
       /\ point_iterations \in [1..n -> 0..MaxVal]
  /\ color_by \in {"position", "iteration"}
  /\ ordered_points = <<>> /\ segments = <<>> /\ colors = <<>>
  /\ caller = "none" /\ method = "none" /\ unvisited = {} /\ current = 0
  /\ initial_path = <<>> /\ iterations = 0 /\ improved = FALSE
  /\ iter_count = 0 /\ i = 0 /\ j = 0 /\ total_distance = FromInt(0)
  /\ call = 0 /\ sweep_rev = 0 /\ call_rev = 0 /\ prev_zero = FALSE
  /\ num_points = 0 /\ sample_method = "none" /\ threshold = 0
  /\ used_method = "none" /\ picked = <<>>
  /\ IdleField /\ IdleMain

\* lines 243-261: ordered points, segments and colours; colors.max() raises
\* ValueError on an empty array
CreatePlot ==
  /\ pc = "plot"
  /\ LET ordered == [k \in 1..Len(path) |-> points[path[k]]]
         ordered_iterations == [k \in 1..Len(path) |-> point_iterations[path[k] + 1]]
     IN  /\ ordered_points' = ordered
         /\ segments' = Segments(ordered)
         /\ IF color_by = "position"
              THEN /\ colors' = UnitLinspace(Len(Segments(ordered)))
                   /\ pc' = "plotted"
              ELSE IF AllButLast(ordered_iterations) = <<>>
                     THEN /\ colors' = <<>>
                          /\ pc' = "error"
                     ELSE /\ colors' = Normalize(AllButLast(ordered_iterations))
                          /\ pc' = "plotted"
  /\ UNCHANGED <<caller, points, method, path, unvisited, current, initial_path,
                 iterations, improved, iter_count, i, j, total_distance, call,
                 sweep_rev, call_rev, prev_zero, fieldVars, extVars, color_by,
                 mainVars>>

NextPlot == CreatePlot

SpecPlot == InitPlot /\ [][NextPlot]_vars

\* ------------------------------------------------------------------------
\* main (lines 295-340): calculate_mandelbrot, extract_points, solve_tsp,
\* create_gradient_line_plot and savefig, on the module's parameters (lines
\* 17-30).  Grids have at most GradMin samples per axis, for which np.linspace
\* returns the end points of the window exactly.
\* ------------------------------------------------------------------------
\* values of MANDELBROT_WIDTH and MANDELBROT_HEIGHT
Sizes == (-1)..GradMin

\* values of X_MIN, X_MAX, Y_MIN and Y_MAX
Ends == 0..1

\* np.linspace(lo, hi, n)[k] for n <= 2
LinspaceEnds(lo, hi, n, k) == IF k = 0 THEN lo ELSE hi

\* main is entered with the module's parameters
InitMain ==
  /\ pc = "main"
  /\ width \in Sizes /\ height \in Sizes
  /\ x_min \in Ends /\ x_max \in Ends /\ y_min \in Ends /\ y_max \in Ends
  /\ max_iter \in 0..MaxIter
  /\ num_points \in 0..(MaxPts + 1)
  /\ sample_method \in {"boundary", "gradient", "random"}
  /\ threshold = MaxThr
  /\ method \in {"nearest_neighbor", "2opt"}
  /\ iterations = MaxK
  /\ color_by \in {"position", "iteration"}
  /\ used_method = sample_method
  /\ picked = <<>> /\ point_iterations = <<>> /\ points = <<>>
  /\ caller = "none" /\ path = <<>> /\ unvisited = {} /\ current = 0
  /\ initial_path = <<>> /\ improved = FALSE /\ iter_count = 0
  /\ i = 0 /\ j = 0 /\ total_distance = FromInt(0)
  /\ call = 0 /\ sweep_rev = 0 /\ call_rev = 0 /\ prev_zero = FALSE
  /\ kind = "none" /\ X = <<>> /\ Y = <<>> /\ C = <<>> /\ Z = <<>> /\ M = <<>>
  /\ it = 0
  /\ ordered_points = <<>> /\ segments = <<>> /\ colors = <<>>

\* lines 305-309 and 54-63: calculate_mandelbrot is called and builds its arrays;
\* np.linspace raises ValueError on a negative number of samples
MainCalculate ==
  /\ pc = "main"
  /\ IF width < 0 \/ height < 0
       THEN /\ pc' = "error"
            /\ UNCHANGED <<kind, X, Y, C, Z, M>>
       ELSE /\ kind' = "mandelbrot"
            /\ X' = [cell \in GridCells(height, width) |->
                       LinspaceEnds(x_min, x_max, width, cell[2])]
            /\ Y' = [cell \in GridCells(height, width) |->
                       LinspaceEnds(y_min, y_max, height, cell[1])]
            /\ C' = [cell \in GridCells(height, width) |->
                       <<LinspaceEnds(x_min, x_max, width, cell[2]),
                         LinspaceEnds(y_min, y_max, height, cell[1])>>]
            /\ Z' = [cell \in GridCells(height, width) |-> <<0, 0>>]
            /\ M' = [cell \in GridCells(height, width) |-> 0]
            /\ pc' = "escape_loop"
  /\ UNCHANGED <<caller, points, method, path, unvisited, current, initial_path,
                 iterations, improved, iter_count, i, j, total_distance, call,
                 sweep_rev, call_rev, prev_zero, max_iter, it, extVars,
                 plotVars, mainVars>>

\* lines 313-317: extract_points is called on the field
MainExtract ==
  /\ pc = "field_done"
  /\ pc' = "extract"
  /\ UNCHANGED <<caller, points, method, path, unvisited, current, initial_path,
                 iterations, improved, iter_count, i, j, total_distance, call,
                 sweep_rev, call_rev, prev_zero, fieldVars, extVars, plotVars,
                 mainVars>>

\* line 321: solve_tsp is called on the extracted points
MainSolve ==
  /\ pc = "extracted"
  /\ pc' = "solve_tsp"
  /\ caller' = "solve_tsp"
  /\ UNCHANGED <<points, method, path, unvisited, current, initial_path,
                 iterations, improved, iter_count, i, j, total_distance, call,
                 sweep_rev, call_rev, prev_zero, fieldVars, extVars, plotVars,
                 mainVars>>

\* lines 325-332: create_gradient_line_plot is called on the tour
MainPlot ==
  /\ pc = "done"
  /\ pc' = "plot"
  /\ UNCHANGED <<caller, points, method, path, unvisited, current, initial_path,
                 iterations, improved, iter_count, i, j, total_distance, call,
                 sweep_rev, call_rev, prev_zero, fieldVars, extVars, plotVars,
                 mainVars>>

\* lines 336-339: the figure is saved
MainSave ==
  /\ pc = "plotted"
  /\ pc' = "saved"
  /\ UNCHANGED <<caller, points, method, path, unvisited, current, initial_path,
                 iterations, improved, iter_count, i, j, total_distance, call,
                 sweep_rev, call_rev, prev_zero, fieldVars, extVars, plotVars,
                 mainVars>>

NextMain ==
  \/ MainCalculate \/ EscapeStep \/ EscapeDone
  \/ MainExtract \/ ExtractPoints
  \/ MainSolve \/ NNInit \/ NNStep \/ NNReturn
  \/ TwoOptInit \/ SweepStart \/ PairStep \/ TwoOptReturn \/ SolveTotal
  \/ MainPlot \/ CreatePlot \/ MainSave

SpecMain == InitMain /\ [][NextMain]_vars
\* ------------------------------------------------------------------------
\* Properties of the tour code
\* ------------------------------------------------------------------------
UnitSquare == (0 :> <<0, 0>> @@ 1 :> <<1, 0>> @@ 2 :> <<1, 1>> @@ 3 :> <<0, 1>>)

InTwoOpt == pc \in {"while", "pair", "returned"}

Adjacent(p, a, b) ==
  \E k \in 1..(Len(p) - 1) : {p[k], p[k + 1]} = {a, b}

\* C1: for N >= 4 the open-path length (first and last point not connected) of
\* the tour two_opt returns is less than or equal to that of the tour it was given
C1_OpenLengthNonIncreasing ==
  (pc = "returned" /\ NumPoints >= 4)
    => FLe(PathLength(path), PathLength(initial_path))

\* C2: for N >= 1 nearest_neighbor_tsp returns a sequence of length N in which
\* every index 0..N-1 appears exactly once
C2_NNPermutation ==
  (pc = "nn_loop" /\ unvisited = {})
    => IsPermutationOf(path, IdentityTour(NumPoints))

C2_Witness == pc = "nn_loop" /\ unvisited = {} /\ NumPoints >= 3

\* C3: at every point of two_opt, in particular after every applied reversal
\* inside a sweep, the working path is a permutation of initial_path
C3_PermutationPreserved == InTwoOpt => IsPermutationOf(path, initial_path)

C3_Witness == pc = "pair" /\ sweep_rev >= 1 /\ path # initial_path

\* C4: every call of two_opt returns, and at return iter_count <= iterations,
\* also when a reversal was applied in every sweep
C4_TerminatesWithinBudget ==
  /\ [](pc = "two_opt" => <>(pc = "returned"))
  /\ [](pc = "returned" => iter_count <= iterations)

C4_Witness ==
  pc = "returned" /\ iterations >= 1 /\ iter_count = iterations /\ improved

\* C5: if two_opt returned after a sweep without reversal, a second call on the
\* returned tour (budget >= 1) applies no reversal and returns the same tour
C5_Idempotent ==
  (call = 2 /\ prev_zero /\ InTwoOpt) => (call_rev = 0 /\ path = initial_path)

C5_Witness ==
  /\ call = 2 /\ prev_zero /\ pc = "returned" /\ iter_count = 1
  /\ initial_path # IdentityTour(NumPoints)

\* C6: on the unit square (0,0),(1,0),(1,1),(0,1), nearest neighbour from index 0
\* followed by two_opt run to a sweep without reversal gives a tour of open-path
\* length 3.0 in which neither 0,2 nor 1,3 are adjacent
C6_UnitSquare ==
  (pc = "done" /\ points = UnitSquare /\ method = "2opt"
     /\ iter_count >= 1 /\ sweep_rev = 0)
    => /\ total_distance = FromInt(3)
       /\ ~Adjacent(path, 0, 2)
       /\ ~Adjacent(path, 1, 3)

C6_Witness ==
  /\ pc = "done" /\ points = UnitSquare /\ method = "2opt"
  /\ iter_count >= 1 /\ sweep_rev = 0

\* ------------------------------------------------------------------------
\* Properties of the escape-time loop
\* ------------------------------------------------------------------------
InField == pc \in {"escape_loop", "field_done"}

\* magnitude greater than 2
Outside(z) == FLt(FromInt(2), Abs(z))

\* C7: after the loop, and after each of its iterations, every cell's recorded
\* iteration count lies in [0, max_iter]
C7_CountInRange ==
  InField => \A cell \in DOMAIN M : M[cell] >= 0 /\ M[cell] <= max_iter

C7_Witness ==
  /\ pc = "field_done" /\ max_iter >= 2
  /\ \E cell \in DOMAIN M : M[cell] = max_iter - 1
  /\ \E cell \in DOMAIN M : M[cell] = 0

C9_OutsideCellUntouched ==
  (InField /\ kind = "julia")
    => \A cell \in DOMAIN M :
         Outside(Z0(cell)) => (Z[cell] = Z0(cell) /\ M[cell] \in {0, 1})

C9_Witness ==
  /\ pc = "field_done" /\ kind = "julia" /\ max_iter >= 2
  /\ \E cell \in DOMAIN M : Outside(Z0(cell))
  /\ \E cell \in DOMAIN M : Z[cell] # Z0(cell)

\* ------------------------------------------------------------------------
\* Properties of extract_points
\* ------------------------------------------------------------------------
\* the cells whose gradient magnitude exceeds threshold
B == {cell \in DOMAIN M : BoundaryMask(M, cell, threshold)}

Min(a, b) == IF a <= b THEN a ELSE b

\* C10: under the boundary policy with B non-empty, exactly min(N, |B|) points
\* are returned, each from a cell of B, and no cell is returned twice
C10_BoundarySample ==
  (pc = "extracted" /\ sample_method = "boundary" /\ B # {})
    => /\ Len(picked) = Min(num_points, Cardinality(B))
       /\ NumPoints = Len(picked)
       /\ Len(point_iterations) = Len(picked)
       /\ \A k \in 1..Len(picked) :
            /\ picked[k] \in B
            /\ points[k - 1] = <<X[picked[k]], Y[picked[k]]>>
       /\ \A a, b \in 1..Len(picked) : picked[a] = picked[b] => a = b

C10_Witness ==
  /\ pc = "extracted" /\ sample_method = "boundary"
  /\ num_points >= 2 /\ Cardinality(B) > num_points

\* every cell of the field holds the same value
Flat == \A a, b \in DOMAIN M : M[a] = M[b]

\* the cells whose gradient magnitude is not zero
NonZero == {cell \in DOMAIN M : GradientMagnitude2(M, cell) # FromInt(0)}

\* C11: under the boundary policy, when no cell's gradient magnitude exceeds
\* threshold and the field is not flat, extract_points falls back to
\* gradient-weighted sampling and returns exactly N points whenever N does not
\* exceed the number of grid cells, without raising an error
C11_FallbackReturnsN ==
  (pc # "extract" /\ sample_method = "boundary" /\ B = {} /\ ~Flat
     /\ num_points <= Cardinality(DOMAIN M))
    => /\ pc = "extracted"
       /\ used_method = "gradient"
       /\ Len(picked) = num_points
       /\ NumPoints = num_points

\* C12: under the gradient-weighted policy, whenever at least one cell has
\* non-zero gradient, N points are returned, even if fewer than N cells have
\* non-zero gradient (cells are drawn with replacement)
C12_WeightedReturnsN ==
  (pc # "extract" /\ sample_method = "gradient" /\ NonZero # {})
    => /\ pc = "extracted"
       /\ Len(picked) = num_points
       /\ NumPoints = num_points

\* C13: when the gradient-weighted policy is applied to a flat field (every
\* gradient magnitude zero), directly or as the fallback of the boundary policy,
\* extract_points ends in an error and returns no points
C13_FlatFieldFails ==
  (pc # "extract" /\ used_method = "gradient" /\ Flat)
    => /\ pc = "error"
       /\ picked = <<>> /\ NumPoints = 0 /\ point_iterations = <<>>

C13_Witness ==
  pc = "error" /\ Flat /\ sample_method = "boundary" /\ used_method = "gradient"

\* C14: a successful extract_points call returns at most N points, as many
\* iteration values as points, exactly N under the random policy, and fewer than
\* N only when fewer than N cells exceed the threshold of the boundary policy
C14_AtMostN ==
  pc = "extracted"
    => /\ Len(picked) <= num_points
       /\ NumPoints = Len(picked)
       /\ Len(point_iterations) = NumPoints
       /\ sample_method = "random" => NumPoints = num_points
       /\ NumPoints < num_points
            => (used_method = "boundary" /\ Cardinality(B) < num_points)

C14_Witness ==
  /\ pc = "extracted" /\ NumPoints < num_points /\ NumPoints >= 1
  /\ Len(point_iterations) = NumPoints

\* ------------------------------------------------------------------------
\* Properties of nearest_neighbor_tsp
\* ------------------------------------------------------------------------
\* the indices not among the first k entries of the tour
NotYet(k) == (0..(NumPoints - 1)) \ {path[m] : m \in 1..k}

\* C15: the tour starts at index 0, every later entry is an unvisited index at
\* minimal distance from the entry before it, and among the unvisited indices at
\* that minimal distance it is the lowest
C15_NearestLowestIndex ==
  pc = "nn_loop"
    => /\ path[1] = 0
       /\ \A k \in 2..Len(path) :
            /\ path[k] \in NotYet(k - 1)
            /\ \A u \in NotYet(k - 1) :
                 /\ FLe(Dist(path[k - 1], path[k]), Dist(path[k - 1], u))
                 /\ Dist(path[k - 1], u) = Dist(path[k - 1], path[k])
                      => path[k] <= u

C15_Witness ==
  /\ pc = "nn_loop" /\ Len(path) >= 3
  /\ \E u \in unvisited :
       /\ Dist(path[2], u) = Dist(path[2], path[3])
       /\ points[u] # points[path[3]]

\* C16: on one point nearest_neighbor_tsp returns the tour [0]; on no point it
\* ends in an error and returns no tour
C16_SmallSets ==
  /\ (NumPoints = 1 /\ pc = "nn_loop" /\ unvisited = {}) => path = <<0>>
  /\ NumPoints = 0 => (pc \in {"solve_tsp", "error"} /\ path = <<>>)

C16_Witness == pc = "error" /\ NumPoints = 0 /\ path = <<>>

\* ------------------------------------------------------------------------
\* Properties of create_gradient_line_plot
\* ------------------------------------------------------------------------
\* the fraction c is a number between 0 and 1
InUnitInterval(c) == c[2] > 0 /\ 0 <= c[1] /\ c[1] <= c[2]

\* C19: for both colour modes and every tour of two or more points, every
\* colour value handed to the renderer lies in [0, 1], also when all iteration
\* values are 0
C19_ColorsInUnitInterval ==
  (pc = "plotted" /\ NumPoints >= 2)
    => \A k \in 1..Len(colors) : InUnitInterval(colors[k])

C17_TooFewPointsFatal ==
  (pc \in {"plotted", "saved"}) => NumPoints >= 2

\* the configuration that main passes on is invalid
InvalidConfiguration ==
  \/ width <= 0 \/ height <= 0
  \/ x_min >= x_max \/ y_min >= y_max
  \/ max_iter < 1 \/ num_points < 1

\* C18: with an invalid configuration main executes no fractal iteration, no
\* point extraction and no tour step
C18_InvalidRejectedAtEntry ==
  InvalidConfiguration
    => /\ it = 0
       /\ pc \in {"main", "escape_loop", "field_done", "error"}

\* ------------------------------------------------------------------------
\* Further properties of the tour code
\* ------------------------------------------------------------------------
\* nearest_neighbor_tsp has returned its tour to solve_tsp
AfterNN == pc \in {"two_opt", "while", "pair", "total", "done"}

\* C21: with budget 0, or with a method other than '2opt', no step after
\* nearest_neighbor_tsp changes the tour, so solve_tsp returns the nearest
\* neighbour tour, and no sweep is executed
C21_NoImprovementLeavesTour ==
  [][(AfterNN /\ (iterations = 0 \/ method # "2opt"))
       => (path' = path /\ iter_count' = 0)]_vars

C21_Witness ==
  /\ pc = "done" /\ method = "2opt" /\ iterations = 0 /\ iter_count = 0
  /\ NumPoints >= 4 /\ path = initial_path
  /\ \E a \in 1..(NumPoints - 2) : \E b \in (a + 1)..(NumPoints - 1) :
       FLt(NewDist(path, a, b), CurrentDist(path, a, b))

\* the Euclidean distance between points[path[k]] and points[path[k+1]], for the
\* Python position k
Leg(k) ==
  LET a == points[At(path, k)]
      b == points[At(path, k + 1)]
  IN  Sqrt((a[1] - b[1]) * (a[1] - b[1]) + (a[2] - b[2]) * (a[2] - b[2]))

RECURSIVE LegSum(_)
\* the sum of the legs at positions 0..k-1
LegSum(k) == IF k = 0 THEN FromInt(0) ELSE FAdd(LegSum(k - 1), Leg(k - 1))

\* C22: the total path length reported by solve_tsp is the sum over the
\* positions k = 0..N-2 of the returned tour of the distance between
\* points[path[k]] and points[path[k+1]], without a term for (last, first)
C22_ReportedLengthIsOpenSum ==
  pc = "done" => total_distance = LegSum(NumPoints - 1)

C22_Witness ==
  /\ pc = "done" /\ NumPoints >= 4 /\ method = "2opt" /\ call_rev >= 1
  /\ points[path[NumPoints]] # points[path[1]]
  /\ total_distance = LegSum(NumPoints - 1)

\* ------------------------------------------------------------------------
\* Further properties of the escape-time loop
\* ------------------------------------------------------------------------
\* the float value v is neither NaN nor infinite
Finite(v) == v[1] \in {"num", "int", "max"}

\* C23: no value of the returned smoothed field is non-finite, and a cell whose
\* logarithmic correction is non-finite (final |z| = 0) is returned with its
\* plain iteration count
C23_SmoothedFiniteOrPlain ==
  [][(pc = "field_done" /\ pc' = "smoothed")
       => \A cell \in DOMAIN M :
            /\ Finite(M'[cell])
            /\ Z[cell] = <<0, 0>> => M'[cell] = <<"int", M[cell]>>]_vars

\* the squared Euclidean distance between the points with indices a and b
SqDist(a, b) ==
  (points[a][1] - points[b][1]) * (points[a][1] - points[b][1])
    + (points[a][2] - points[b][2]) * (points[a][2] - points[b][2])

\* sqrt(p) - sqrt(q) < r / 2 for naturals p, q and an integer r, in exact arithmetic
RootDiffLess(p, q, r) ==
  IF r > 0
    THEN p <= q \/ 4 * (p + q) - r * r < 0
           \/ (4 * (p + q) - r * r) * (4 * (p + q) - r * r) < 64 * p * q
    ELSE q > p /\ 4 * (p + q) - r * r > 0
           /\ (4 * (p + q) - r * r) * (4 * (p + q) - r * r) > 64 * p * q

\* sqrt(a) + sqrt(b) < sqrt(c) + sqrt(d) for naturals, in exact arithmetic
RootSumLess(a, b, c, d) == RootDiffLess(a * b, c * d, (c + d) - (a + b))

\* for the pair (a, b) of the tour p, the sum of the two distances after the
\* reversal is strictly less than the sum before it, as real numbers
StrictlyShorter(p, a, b) ==
  RootSumLess(SqDist(At(p, a - 1), At(p, b)),
              SqDist(At(p, a), At(p, (b + 1) % Len(p))),
              SqDist(At(p, a - 1), At(p, a)),
              SqDist(At(p, b), At(p, (b + 1) % Len(p))))

\* the tour p with the Python positions a..b in reverse order
Flipped(p, a, b) ==
  [k \in 1..Len(p) |-> IF a + 1 <= k /\ k <= b + 1 THEN p[a + b + 2 - k] ELSE p[k]]

\* C24: a sweep examines the pairs (i, j) with 1 <= i < j <= N-1 once each, in
\* order, and at each pair reverses path[i..j] if and only if the sum of the two
\* new distances is strictly less than the sum of the two old ones on the
\* current path; when the sums are equal the path is left unchanged
C24_PairTest ==
  [][/\ (pc = "while" /\ pc' = "pair") => (i' = 1 /\ j' = 2)
     /\ pc = "pair"
          => /\ 1 <= i /\ i < j /\ j <= NumPoints - 1
             /\ path' = IF StrictlyShorter(path, i, j)
                          THEN Flipped(path, i, j) ELSE path
             /\ IF j < NumPoints - 1
                  THEN pc' = "pair" /\ i' = i /\ j' = j + 1
                  ELSE IF i < NumPoints - 2
                         THEN pc' = "pair" /\ i' = i + 1 /\ j' = i + 2
                         ELSE pc' = "while"]_vars

\* |a - b|
AbsDiff(a, b) == IF a < b THEN b - a ELSE a - b

\* the length of the cyclic tour p over points of the diagonal, in units of
\* sqrt(2): the point (x, x) and the point (y, y) are |x - y| * sqrt(2) apart
RECURSIVE CyclicUnits(_, _)
CyclicUnits(p, k) ==
  IF k = 0 THEN 0
  ELSE CyclicUnits(p, k - 1)
         + AbsDiff(points[At(p, k - 1)][1], points[At(p, k % Len(p))][1])

OnDiagonal == \A k \in DOMAIN points : points[k][1] = points[k][2]

\* C27: the cyclic tour length (the open length plus the distance from the last
\* tour point back to the first) strictly decreases with every reversal two_opt
\* applies, and is at most its initial value at every point of the run
C27_CyclicLengthDecreases ==
  [][(OnDiagonal /\ pc = "pair")
       => /\ path' # path
               => CyclicUnits(path', NumPoints) < CyclicUnits(path, NumPoints)
          /\ CyclicUnits(path, NumPoints) <= CyclicUnits(initial_path, NumPoints)]_vars

\* C25: two_opt stops right after the first sweep that applied no reversal, with
\* no further sweep even when budget remains; when it returns for that reason no
\* pair of the returned tour passes the strict improvement test; when it returns
\* with a reversal in its last sweep, exactly K sweeps were executed
C25_StopsAfterQuietSweep ==
  [][/\ (pc = "while" /\ iter_count >= 1 /\ sweep_rev = 0)
          => (pc' = "returned" /\ iter_count' = iter_count /\ path' = path)
     /\ (pc' = "returned" /\ iter_count' >= 1 /\ sweep_rev' = 0)
          => \A a \in 1..(NumPoints - 2) : \A b \in (a + 1)..(NumPoints - 1) :
               ~Improves(path', a, b)
     /\ (pc' = "returned" /\ sweep_rev' >= 1) => iter_count' = iterations]_vars

C25_Witness ==
  /\ pc = "returned" /\ call = 2 /\ NumPoints >= 4
  /\ iter_count = 1 /\ iter_count < iterations /\ sweep_rev = 0
  /\ path # IdentityTour(NumPoints)

\* the tour nearest_neighbor_tsp builds from the tour acc and the unvisited set
\* unv, as a function of the point array alone
RECURSIVE NNTour(_, _)
NNTour(acc, unv) ==
  IF unv = {} THEN acc
  ELSE LET nxt == Nearest(acc[Len(acc)], unv)
       IN  NNTour(Append(acc, nxt), unv \ {nxt})

\* the tour and the improved flag after the pairs from (a, b) to the end of a sweep
RECURSIVE PairsFrom(_, _, _, _)
PairsFrom(p, a, b, imp) ==
  LET hit == Improves(p, a, b)
      q == IF hit THEN Reverse(p, a, b) ELSE p
  IN  IF b + 1 <= Len(p) - 1 THEN PairsFrom(q, a, b + 1, imp \/ hit)
      ELSE IF a + 1 <= Len(p) - 2 THEN PairsFrom(q, a + 1, a + 2, imp \/ hit)
      ELSE <<q, imp \/ hit>>

\* the tour two_opt returns for the tour p and a budget of k sweeps
RECURSIVE Sweeps(_, _)
Sweeps(p, k) ==
  IF k = 0 \/ Len(p) < 3 THEN p
  ELSE LET r == PairsFrom(p, 1, 2, FALSE)
       IN  IF r[2] THEN Sweeps(r[1], k - 1) ELSE r[1]

\* the tour solve_tsp ends with, as a function of points, method and iterations
SolveTour ==
  LET nn == NNTour(<<0>>, (0..(NumPoints - 1)) \ {0})
  IN  IF method = "2opt" THEN Sweeps(nn, iterations) ELSE nn

\* C26: nearest_neighbor_tsp and two_opt are deterministic, the tour they end
\* with being a function of their inputs alone, and neither of them modifies
\* the point array
C26_DeterministicAndPointsKept ==
  [][/\ points' = points
     /\ (pc = "nn_loop" /\ pc' # "nn_loop")
          => path' = NNTour(<<0>>, (0..(NumPoints - 1)) \ {0})
     /\ pc' = "done" => path' = SolveTour]_vars

C26_Witness ==
  /\ pc = "done" /\ method = "2opt" /\ NumPoints >= 4 /\ call_rev >= 1
  /\ points[1] # points[2] /\ Dist(0, 1) = Dist(0, 2)
  /\ path = SolveTour

\* C28: position 0 of the tour holds index 0 throughout: nearest_neighbor_tsp
\* starts the tour with it and no reversal of two_opt moves it
C28_StartStaysFirst == path # <<>> => path[1] = 0

C28_Witness ==
  /\ pc = "done" /\ method = "2opt" /\ NumPoints >= 4 /\ call_rev >= 1
  /\ path[1] = 0 /\ path[2] # initial_path[2]

\* the final <<Z, M>> of one cell computed from its own data alone: the orbit
\* value z, the constant c, the count m, the iteration k and max_iter n
RECURSIVE CellRun(_, _, _, _, _)
CellRun(z, c, m, k, n) ==
  IF k = n THEN <<z, m>>
  ELSE IF Outside(z) THEN CellRun(z, c, m, k + 1, n)
  ELSE CellRun(CAdd(CSquare(z), c), c, k, k + 1, n)

\* C29: a cell whose orbit magnitude exceeds 2 at the start of an iteration has
\* neither Z nor M changed in that iteration (hence in no later one), and the
\* final Z and M of a cell depend only on its own coordinate, c and max_iter
C29_EscapedCellFrozen ==
  [][/\ pc = "escape_loop"
          => \A cell \in DOMAIN M :
               Outside(Z[cell]) => (Z'[cell] = Z[cell] /\ M'[cell] = M[cell])
     /\ pc' = "field_done"
          => \A cell \in DOMAIN M :
               <<Z'[cell], M'[cell]>> =
                 CellRun(IF kind = "julia" THEN Z0(cell) ELSE <<0, 0>>,
                         IF kind = "julia" THEN C[cell] ELSE Z0(cell),
                         0, 0, max_iter)]_vars

C29_Witness ==
  /\ pc = "field_done" /\ kind = "mandelbrot" /\ max_iter >= 3
  /\ \E cell \in DOMAIN M : Outside(Z[cell]) /\ M[cell] < max_iter - 1
  /\ \E cell \in DOMAIN M : ~Outside(Z[cell]) /\ Z[cell] # <<0, 0>>

\* C30: two_opt never modifies the list passed as initial_path: it works on a
\* private copy
C30_ArgumentKept ==
  [][(pc \in {"two_opt", "while", "pair"}) => (initial_path' = initial_path)]_vars

C30_Witness ==
  /\ pc = "returned" /\ call = 1 /\ NumPoints >= 4 /\ call_rev >= 1
  /\ path # initial_path /\ initial_path = IdentityTour(NumPoints)
====
